---- MODULE Spec2Model ----
(***************************************************************************)
(* A model of src/mpn.py: the feature encoders, the graph batcher          *)
(* mol2graph with its process-wide memoization cache SMILES_TO_FEATURES,   *)
(* and the forward pass of the message passing network MPN.                *)
(*                                                                         *)
(* Python lists are sequences.  Atom and bond indices are kept as the      *)
(* 0-based numbers the code stores (so that 0 is the padding index); the   *)
(* element with Python index k of a list is element k + 1 of the sequence. *)
(* An optional value (None or x) is the sequence << >> or << x >>.         *)
(* Real numbers are integers (fixed point, see the MPN section).           *)
(***************************************************************************)
EXTENDS Integers, Sequences, FiniteSets, TLC

VARIABLES
    SMILES_TO_FEATURES, \* the memoization dictionary (mpn.py line 37)
    cached_flags,       \* history: the flags of the call that inserted each entry
    call,               \* the arguments of the last mol2graph call, with history
    ret,                \* what the last mol2graph call returned or raised
    fwd                 \* the last MPN.forward call: arguments, messages, result

vars == <<SMILES_TO_FEATURES, cached_flags, call, ret, fwd>>

(***************************************************************************)
(* Bounds of the model.                                                    *)
(***************************************************************************)
\* the longest mol_batch a mol2graph call is given
MaxBatch == 2
\* the longest mol_batch of the calls that try every combination of flags
MaxFlagBatch == 1
\* the largest args.depth an MPN is built with
MaxDepth == 3
\* args.hidden_size of the MPNs that are built
HiddenSize == 2

(***************************************************************************)
(* Small helpers for Python's list operations.                             *)
(***************************************************************************)
Bool2Int(b) == IF b THEN 1 ELSE 0

Zeros(n) == [i \in 1..n |-> 0]

RECURSIVE SumSeq(_)
SumSeq(s) == IF s = << >> THEN 0 ELSE Head(s) + SumSeq(Tail(s))

RECURSIVE Flatten(_)
Flatten(ss) == IF ss = << >> THEN << >> ELSE Head(ss) \o Flatten(Tail(ss))

MaxOf(S) == CHOOSE m \in S : \A k \in S : k <= m

\* the value v itself.  TLC computes the elements of a function only when
\* they are read, and again at every reading; a comparison computes them
\* once and for all.
Computed(v) == IF v = v THEN v ELSE v

(***************************************************************************)
(* Feature encoders (mpn.py lines 13-124).                                 *)
(***************************************************************************)
\* Chem.rdchem.HybridizationType, as the integers the toolkit's enum has
HybridizationType == [UNSPECIFIED |-> 0, S |-> 1, SP |-> 2, SP2 |-> 3,
                      SP3 |-> 4, SP3D |-> 5, SP3D2 |-> 6]

ATOM_FEATURES ==
    [atomic_num            |-> [i \in 1..100 |-> i - 1],
     degree                |-> <<0, 1, 2, 3, 4, 5>>,
     formal_charge         |-> <<-1, -2, 1, 2, 0>>,
     chiral_tag            |-> <<0, 1, 2, 3>>,
     implicit_valence      |-> <<0, 1, 2, 3, 4, 5, 6>>,
     num_Hs                |-> <<0, 1, 2, 3, 4>>,
     hybridization         |-> <<HybridizationType.SP, HybridizationType.SP2,
                                 HybridizationType.SP3, HybridizationType.SP3D,
                                 HybridizationType.SP3D2>>,
     num_radical_electrons |-> <<0, 1, 2>>]

ATOM_FDIM ==
    SumSeq(<<Len(ATOM_FEATURES.atomic_num) + 1,
             Len(ATOM_FEATURES.degree) + 1,
             Len(ATOM_FEATURES.formal_charge) + 1,
             Len(ATOM_FEATURES.chiral_tag) + 1,
             Len(ATOM_FEATURES.implicit_valence) + 1,
             Len(ATOM_FEATURES.num_Hs) + 1,
             Len(ATOM_FEATURES.hybridization) + 1,
             Len(ATOM_FEATURES.num_radical_electrons) + 1>>) + 1

BOND_FDIM == 14

get_atom_fdim == ATOM_FDIM

get_bond_fdim(three_d, virtual_edges) ==
    BOND_FDIM + Bool2Int(three_d) + (11 * Bool2Int(virtual_edges))

\* choices.index(value): the first position holding value
ListIndex(choices, value) ==
    CHOOSE i \in 1..Len(choices) :
        /\ choices[i] = value
        /\ \A j \in 1..(i - 1) : choices[j] # value

\* encoding[-1] is the last of the len(choices) + 1 elements
onek_encoding_unk(value, choices) ==
    LET index == IF \E i \in 1..Len(choices) : choices[i] = value
                 THEN ListIndex(choices, value)
                 ELSE Len(choices) + 1
    IN  [i \in 1..(Len(choices) + 1) |-> IF i = index THEN 1 ELSE 0]

atom_features(atom) ==
    onek_encoding_unk(atom.AtomicNum - 1, ATOM_FEATURES.atomic_num)
    \o onek_encoding_unk(atom.Degree, ATOM_FEATURES.degree)
    \o onek_encoding_unk(atom.FormalCharge, ATOM_FEATURES.formal_charge)
    \o onek_encoding_unk(atom.ChiralTag, ATOM_FEATURES.chiral_tag)
    \o onek_encoding_unk(atom.ImplicitValence, ATOM_FEATURES.implicit_valence)
    \o onek_encoding_unk(atom.TotalNumHs, ATOM_FEATURES.num_Hs)
    \o onek_encoding_unk(atom.Hybridization, ATOM_FEATURES.hybridization)
    \o onek_encoding_unk(atom.NumRadicalElectrons, ATOM_FEATURES.num_radical_electrons)
    \o <<Bool2Int(atom.IsAromatic)>>

\* bond, distance_path and distance_3d are optional values
bond_features(bond, distance_path, distance_3d) ==
    LET fbond ==
            IF bond = << >>
            THEN <<1>> \o Zeros(13)
            ELSE LET bt == bond[1].BondType
                 IN  <<0,
                       Bool2Int(bt = "SINGLE"),
                       Bool2Int(bt = "DOUBLE"),
                       Bool2Int(bt = "TRIPLE"),
                       Bool2Int(bt = "AROMATIC"),
                       Bool2Int(bond[1].IsConjugated),
                       Bool2Int(bond[1].IsInRing)>>
                     \o onek_encoding_unk(bond[1].Stereo, [i \in 1..6 |-> i - 1])
        fdistance_path ==
            IF distance_path # << >>
            THEN onek_encoding_unk(distance_path[1], [i \in 1..10 |-> i - 1])
            ELSE << >>
        fdistance_3d == IF distance_3d # << >> THEN <<distance_3d[1]>> ELSE << >>
    IN  fbond \o fdistance_path \o fdistance_3d

(***************************************************************************)
(* The chemistry toolkit (rdkit), as mol2graph uses it.  The toolkit is    *)
(* not part of the program: what it answers for the notations of the       *)
(* model is given here as data.  A molecule object is its notation,        *)
(* whether its hydrogens are explicit atoms, and its conformer.            *)
(***************************************************************************)
\* "C#N" is hydrogen cyanide, "[Na+]" a sodium cation, "C#" does not parse
Notations == {"C#N", "[Na+]", "C#"}

\* what AllChem.EmbedMolecule may leave behind: no conformer (the embedding
\* failed), or one of the conformers the unseeded embedding can draw
EmbedOutcomes == {"none", "confA", "confB"}

Atom(num, degree, charge, implicit_valence, num_Hs, hybridization) ==
    [AtomicNum |-> num, Degree |-> degree, FormalCharge |-> charge,
     ChiralTag |-> 0, ImplicitValence |-> implicit_valence,
     TotalNumHs |-> num_Hs, Hybridization |-> hybridization,
     NumRadicalElectrons |-> 0, IsAromatic |-> FALSE]

Bond(bond_type) ==
    [BondType |-> bond_type, IsConjugated |-> FALSE, IsInRing |-> FALSE, Stereo |-> 0]

\* Chem.MolFromSmiles: None for a notation that does not parse
MolFromSmiles(smiles) ==
    IF smiles = "C#"
    THEN << >>
    ELSE <<[smiles |-> smiles, explicitHs |-> FALSE, conformer |-> "none"]>>

AddHs(mol) == [mol EXCEPT !.explicitHs = TRUE]

RemoveHs(mol) == [mol EXCEPT !.explicitHs = FALSE]

EmbedMolecule(mol, outcome) == [mol EXCEPT !.conformer = outcome]

\* mol.GetAtoms(): the hydrogens AddHs adds come after the heavy atoms
GetAtoms(mol) ==
    IF mol.smiles = "C#N"
    THEN IF mol.explicitHs
         THEN <<Atom(6, 2, 0, 0, 0, HybridizationType.SP),
                Atom(7, 1, 0, 0, 0, HybridizationType.SP),
                Atom(1, 1, 0, 0, 0, HybridizationType.S)>>
         ELSE <<Atom(6, 1, 0, 1, 1, HybridizationType.SP),
                Atom(7, 1, 0, 0, 0, HybridizationType.SP)>>
    ELSE <<Atom(11, 0, 1, 0, 0, HybridizationType.S)>>

GetNumAtoms(mol) == Len(GetAtoms(mol))

\* mol.GetBondBetweenAtoms(a1, a2), for a1 < a2: None when there is no bond
GetBondBetweenAtoms(mol, a1, a2) ==
    IF mol.smiles = "C#N" /\ <<a1, a2>> = <<0, 1>> THEN <<Bond("TRIPLE")>>
    ELSE IF mol.smiles = "C#N" /\ <<a1, a2>> = <<0, 2>> THEN <<Bond("SINGLE")>>
    ELSE << >>

\* Chem.GetDistanceMatrix(mol)[a1, a2]: the length of the shortest path
GetDistanceMatrix(mol, a1, a2) ==
    IF a1 = a2 THEN 0
    ELSE IF GetBondBetweenAtoms(mol, a1, a2) # << >> THEN 1 ELSE 2

\* Chem.Get3DDistanceMatrix(mol)[a1, a2], in units of the model: it depends
\* on the conformer that was drawn
Get3DDistanceMatrix(mol, a1, a2) ==
    (10 * GetDistanceMatrix(mol, a1, a2)) + Bool2Int(mol.conformer = "confB")

(***************************************************************************)
(* mol2graph (mpn.py lines 127-233).                                       *)
(***************************************************************************)
Flags == [addHs : BOOLEAN, three_d : BOOLEAN, virtual_edges : BOOLEAN]

\* line 140
Padding(three_d, virtual_edges) ==
    Zeros(get_atom_fdim + get_bond_fdim(three_d, virtual_edges))

\* the pairs the loops of lines 175-176 visit from (a1, a2) on, in order
RECURSIVE AtomPairs(_, _, _)
AtomPairs(n_atoms, a1, a2) ==
    IF a1 >= n_atoms THEN << >>
    ELSE IF a2 >= n_atoms THEN AtomPairs(n_atoms, a1 + 1, a1 + 2)
    ELSE <<(<<a1, a2>>)>> \o AtomPairs(n_atoms, a1, a2 + 1)

\* lines 177-193 for one pair: the directed pairs and bond rows it appends
PairBonds(mol, mol_fatoms, a1, a2, three_d, virtual_edges) ==
    LET bond == GetBondBetweenAtoms(mol, a1, a2)
        distance_3d == IF three_d THEN <<Get3DDistanceMatrix(mol, a1, a2)>> ELSE << >>
        distance_path == IF virtual_edges THEN <<GetDistanceMatrix(mol, a1, a2)>> ELSE << >>
        fbond == bond_features(bond, distance_path, distance_3d)
    IN  IF bond = << >> /\ ~virtual_edges
        THEN [mol_all_bonds |-> << >>, mol_fbonds |-> << >>]
        ELSE [mol_all_bonds |-> <<(<<a1, a2>>), (<<a2, a1>>)>>,
              mol_fbonds    |-> <<mol_fatoms[a1 + 1] \o fbond,
                                  mol_fatoms[a2 + 1] \o fbond>>]

\* a batcher that passes over a notation that does not parse
NoneMoleculeSkipped ==
    [raised |-> "",
     entry  |-> [mol_fatoms |-> << >>, mol_fbonds |-> << >>,
                 mol_all_bonds |-> << >>, n_atoms |-> 0]]

\* lines 153-167 when MolFromSmiles returned None: AddHs(None) (156, 160)
\* or GetDistanceMatrix(None) (167) raises, whatever the flags
NoneMolecule == [raised |-> "ArgumentError"]

\* lines 150-193, a cache miss: the tuple to memoize, or the error raised.
\* outcome is what the embedding of line 161 does in this call.
Featurize(smiles, addHs, three_d, virtual_edges, outcome) ==
    LET parsed == MolFromSmiles(smiles)
    IN  IF parsed = << >>
        THEN NoneMolecule
        ELSE
        LET mol1 == IF addHs THEN AddHs(parsed[1]) ELSE parsed[1]
            embedded == EmbedMolecule(AddHs(mol1), outcome)
            mol == IF ~three_d THEN mol1
                   ELSE IF ~addHs THEN RemoveHs(embedded) ELSE embedded
        IN  IF three_d /\ mol.conformer = "none"
            THEN \* Get3DDistanceMatrix (164) finds no conformer
                 [raised |-> "ValueError"]
            ELSE
            LET n_atoms == GetNumAtoms(mol)
                atoms == GetAtoms(mol)
                mol_fatoms == [i \in 1..n_atoms |-> atom_features(atoms[i])]
                pairs == AtomPairs(n_atoms, 0, 1)
                per_pair == [k \in 1..Len(pairs) |->
                                PairBonds(mol, mol_fatoms, pairs[k][1], pairs[k][2],
                                          three_d, virtual_edges)]
            IN  [raised |-> "",
                 entry  |-> [mol_fatoms    |-> mol_fatoms,
                             mol_fbonds    |-> Flatten([k \in 1..Len(pairs) |->
                                                           per_pair[k].mol_fbonds]),
                             mol_all_bonds |-> Flatten([k \in 1..Len(pairs) |->
                                                           per_pair[k].mol_all_bonds]),
                             n_atoms       |-> n_atoms]]

\* a cache keyed by the notation and the flags
KeyWithFlags(smiles, flags) == <<smiles, flags>>

\* lines 147, 148, 196: what SMILES_TO_FEATURES is keyed by in a call with
\* these flags
Key(smiles, flags) == smiles

\* line 147
InCache(cache, key) == key \in DOMAIN cache

\* a slip in line 196: the bonds left out of the memoized tuple
MemoizeAtomsOnly(cache, key, entry) ==
    [k \in (DOMAIN cache) \cup {key} |->
        IF k = key
        THEN [entry EXCEPT !.mol_fbonds = << >>, !.mol_all_bonds = << >>]
        ELSE cache[k]]

\* a cache of one entry: memoizing evicts what was there
MemoizeEvicting(cache, key, entry) == [k \in {key} |-> entry]

\* line 196
Memoize(cache, key, entry) ==
    [k \in (DOMAIN cache) \cup {key} |-> IF k = key THEN entry ELSE cache[k]]

\* history: the flags of the call that made the entry of a notation
Remember(cflags, smiles, flags) ==
    [k \in (DOMAIN cflags) \cup {smiles} |-> IF k = smiles THEN flags ELSE cflags[k]]

\* a slip in lines 141-142: no row and no pair reserved for index 0
InitialBatchNoPadding(cache, cflags, three_d, virtual_edges) ==
    [cache       |-> cache,
     cflags      |-> cflags,
     fatoms      |-> << >>,
     fbonds      |-> << >>,
     in_bonds    |-> << >>,
     all_bonds   |-> << >>,
     scope       |-> << >>,
     total_atoms |-> 0,
     raised      |-> "",
     hits        |-> << >>,
     stale       |-> << >>]

\* lines 141-144: the locals before the loop (bonds are 1-indexed: index 0
\* holds the padding row and the pair (-1, -1)), with the cache and the
\* history of the call
InitialBatch(cache, cflags, three_d, virtual_edges) ==
    [cache       |-> cache,
     cflags      |-> cflags,
     fatoms      |-> << >>,
     fbonds      |-> <<Padding(three_d, virtual_edges)>>,
     in_bonds    |-> << >>,
     all_bonds   |-> <<(<<-1, -1>>)>>,
     scope       |-> << >>,
     total_atoms |-> 0,
     raised      |-> "",
     hits        |-> << >>,
     stale       |-> << >>]

\* a slip in line 205: a1 left as the molecule's own index
OffsetBondDestOnly(bond, total_atoms) == <<bond[1], bond[2] + total_atoms>>

\* lines 205-206
OffsetBond(bond, total_atoms) == <<bond[1] + total_atoms, bond[2] + total_atoms>>

\* a slip in line 210: the bond filed under its source a1
AppendInBondAtSource(in_bonds, bond, bond_idx) ==
    [in_bonds EXCEPT ![bond[1] + 1] = Append(@, bond_idx)]

\* line 210: in_bonds[a2].append(bond_idx)
AppendInBond(in_bonds, bond, bond_idx) ==
    [in_bonds EXCEPT ![bond[2] + 1] = Append(@, bond_idx)]

\* lines 204-210, from the k-th pair of mol_all_bonds on
RECURSIVE AddBonds(_, _, _, _, _)
AddBonds(all_bonds, in_bonds, mol_all_bonds, k, total_atoms) ==
    IF k > Len(mol_all_bonds)
    THEN [all_bonds |-> all_bonds, in_bonds |-> in_bonds]
    ELSE LET bond == OffsetBond(mol_all_bonds[k], total_atoms)
             bond_idx == Len(all_bonds)
         IN  AddBonds(Append(all_bonds, bond),
                      AppendInBond(in_bonds, bond, bond_idx),
                      mol_all_bonds, k + 1, total_atoms)

\* a slip in line 212: (start, end) in place of (start, count)
ScopeEntryEnd(total_atoms, n_atoms) == <<total_atoms, total_atoms + n_atoms>>

\* line 212
ScopeEntry(total_atoms, n_atoms) == <<total_atoms, n_atoms>>

\* lines 199-213: add one molecule's tuple to the batch
AddToBatch(st, entry) ==
    LET added == AddBonds(st.all_bonds,
                          st.in_bonds \o [i \in 1..entry.n_atoms |-> << >>],
                          entry.mol_all_bonds, 1, st.total_atoms)
    IN  [st EXCEPT !.fatoms      = @ \o entry.mol_fatoms,
                   !.fbonds      = @ \o entry.mol_fbonds,
                   !.in_bonds    = added.in_bonds,
                   !.all_bonds   = added.all_bonds,
                   !.scope       = Append(@, ScopeEntry(st.total_atoms, entry.n_atoms)),
                   !.total_atoms = @ + entry.n_atoms]

\* lines 147-213: one iteration of the loop over mol_batch
LoopBody(st, smiles, flags, outcome) ==
    IF InCache(st.cache, Key(smiles, flags))
    THEN AddToBatch([st EXCEPT !.hits  = Append(@, TRUE),
                               !.stale = Append(@, st.cflags[smiles] # flags)],
                    st.cache[Key(smiles, flags)])
    ELSE LET made == Featurize(smiles, flags.addHs, flags.three_d,
                               flags.virtual_edges, outcome)
         IN  IF made.raised # ""
             THEN [st EXCEPT !.raised = made.raised]
             ELSE AddToBatch([st EXCEPT
                                 !.cache  = Memoize(st.cache, Key(smiles, flags),
                                                    made.entry),
                                 !.cflags = Remember(st.cflags, smiles, flags),
                                 !.hits   = Append(@, FALSE),
                                 !.stale  = Append(@, FALSE)],
                             made.entry)

\* lines 146-213: the loop from position i on; an exception ends it
RECURSIVE BatchLoop(_, _, _, _, _)
BatchLoop(st, mol_batch, flags, outcomes, i) ==
    IF i > Len(mol_batch) \/ st.raised # ""
    THEN st
    ELSE BatchLoop(LoopBody(st, mol_batch[i], flags, outcomes[i]),
                   mol_batch, flags, outcomes, i + 1)

\* torch.stack (lines 218-219) takes tensors of one size only
Stackable(rows) == \A i \in 1..Len(rows) : Len(rows[i]) = Len(rows[1])

\* lines 220, 223-225: row a of agraph
AgraphRow(in_bonds, a, max_num_bonds) ==
    [i \in 1..max_num_bonds |->
        IF i <= Len(in_bonds[a + 1]) THEN in_bonds[a + 1][i] ELSE 0]

\* a slip in line 230: b2's source compared with x, the source of b1
BgraphEntryWrongEnd(all_bonds, b1, b2) ==
    IF all_bonds[b2 + 1][1] # all_bonds[b1 + 1][1] THEN b2 ELSE 0

\* lines 230-231: what bgraph[b1, i] holds for the incoming bond b2 of x
BgraphEntry(all_bonds, b1, b2) ==
    IF all_bonds[b2 + 1][1] # all_bonds[b1 + 1][2] THEN b2 ELSE 0

\* lines 221, 227-231: row b1 of bgraph (row 0 is left as zeros)
BgraphRow(all_bonds, in_bonds, b1, max_num_bonds) ==
    IF b1 = 0
    THEN Zeros(max_num_bonds)
    ELSE LET x == all_bonds[b1 + 1][1]
         IN  [i \in 1..max_num_bonds |->
                 IF i <= Len(in_bonds[x + 1])
                 THEN BgraphEntry(all_bonds, b1, in_bonds[x + 1][i])
                 ELSE 0]

\* lines 215-233: the tensors, or the error raised on the way
Tensors(st) ==
    IF st.raised # "" THEN [status |-> "error", raised |-> st.raised]
    ELSE IF st.in_bonds = << >>
    THEN \* max() of an empty sequence (216)
         [status |-> "error", raised |-> "ValueError"]
    ELSE IF ~Stackable(st.fatoms) \/ ~Stackable(st.fbonds)
    THEN [status |-> "error", raised |-> "RuntimeError"]
    ELSE
    LET total_bonds == Len(st.all_bonds)
        max_num_bonds == MaxOf({Len(st.in_bonds[a]) : a \in 1..Len(st.in_bonds)})
    IN  [status    |-> "ok",
         fatoms    |-> st.fatoms,
         fbonds    |-> st.fbonds,
         agraph    |-> [a \in 1..st.total_atoms |->
                           AgraphRow(st.in_bonds, a - 1, max_num_bonds)],
         bgraph    |-> [b \in 1..total_bonds |->
                           BgraphRow(st.all_bonds, st.in_bonds, b - 1, max_num_bonds)],
         scope     |-> st.scope,
         \* the local all_bonds as it is when the call returns
         all_bonds |-> st.all_bonds]

NoCall == [mol_batch |-> << >>, flags |-> [addHs |-> FALSE, three_d |-> FALSE,
                                          virtual_edges |-> FALSE],
           hits |-> << >>, stale |-> << >>, repeat |-> FALSE, prev_missed |-> FALSE]

NoForward == [status |-> "none"]

Init ==
    /\ SMILES_TO_FEATURES = << >>
    /\ cached_flags = << >>
    /\ call = NoCall
    /\ ret = [status |-> "none"]
    /\ fwd = NoForward

\* the embedding is consulted only on a cache miss with three_d set: the
\* outcome at every other position is fixed, as nothing reads it
OutcomesRead(cache, mol_batch, flags, outcomes) ==
    \A i \in 1..Len(mol_batch) :
        (outcomes[i] # "confA") =>
            /\ flags.three_d
            /\ ~InCache(cache, Key(mol_batch[i], flags))
            /\ MolFromSmiles(mol_batch[i]) # << >>
            /\ \A j \in 1..(i - 1) : mol_batch[j] # mol_batch[i]

\* one call mol2graph(mol_batch, addHs, three_d, virtual_edges).  The graph
\* of an earlier call is gone, and with it the forward pass made on it.
Mol2Graph(mol_batch, flags, outcomes) ==
    /\ OutcomesRead(SMILES_TO_FEATURES, mol_batch, flags, outcomes)
    /\ \E st \in {BatchLoop(InitialBatch(SMILES_TO_FEATURES, cached_flags,
                                         flags.three_d, flags.virtual_edges),
                            mol_batch, flags, outcomes, 1)} :
        /\ SMILES_TO_FEATURES' = st.cache
        /\ cached_flags' = st.cflags
        /\ ret' = Tensors(st)
        /\ call' = [mol_batch   |-> mol_batch,
                    flags       |-> flags,
                    hits        |-> st.hits,
                    stale       |-> st.stale,
                    repeat      |-> /\ ret.status = "ok"
                                    /\ call.mol_batch = mol_batch
                                    /\ call.flags = flags,
                    prev_missed |-> \E i \in 1..Len(call.hits) : ~call.hits[i]]
    /\ fwd' = NoForward

\* the batches of at most n notations drawn from S
BatchesOver(S, n) == UNION {[1..k -> S] : k \in 0..n}

\* the notations that parse
Parsable == {smiles \in Notations : MolFromSmiles(smiles) # << >>}

(***************************************************************************)
(* MPN (mpn.py lines 272-366).  Tensors of reals are sequences of          *)
(* integers: sums and products are exact, and the three places where the   *)
(* code leaves the integers are rounded as written below (a negative       *)
(* slope, tanh, and softmax's exponential and quotient).                   *)
(***************************************************************************)
TruncDiv(a, b) == IF a >= 0 THEN a \div b ELSE -((-a) \div b)

Clamp(x, lo, hi) == IF x < lo THEN lo ELSE IF x > hi THEN hi ELSE x

\* the sum of f[lo] .. f[hi], by halves
RECURSIVE SumRange(_, _, _)
SumRange(f, lo, hi) ==
    IF lo > hi THEN 0
    ELSE IF lo = hi THEN f[lo]
    ELSE LET mid == (lo + hi) \div 2
         IN  SumRange(f, lo, mid) + SumRange(f, mid + 1, hi)

\* the sum of f[1] .. f[n]
SumTo(f, n) == SumRange(f, 1, n)

\* the sum of f[k] over the k of a finite set of integers
RECURSIVE SumOver(_, _)
SumOver(f, S) ==
    IF S = {} THEN 0
    ELSE LET k == CHOOSE m \in S : \A n \in S : m <= n
         IN  f[k] + SumOver(f, S \ {k})

\* the positions of x that hold something other than 0
Support(x) == {k \in 1..Len(x) : x[k] # 0}

\* the inner product of w and x, given the support of x: the terms with
\* x[k] = 0 add nothing
DotOn(w, x, support) == SumOver([k \in support |-> w[k] * x[k]], support)

Dot(w, x) == DotOn(w, x, Support(x))

\* the sum over dim 0 of a sequence of vectors of the given width
SumVectors(vs, width) ==
    [h \in 1..width |-> SumTo([j \in 1..Len(vs) |-> vs[j][h]], Len(vs))]

\* nn.Linear: a weight row per output, and a bias (zeros for bias=False)
Linear(weight, bias, x) ==
    LET support == Support(x)
    IN  [h \in 1..Len(weight) |-> DotOn(weight[h], x, support) + bias[h]]

\* the parameters the layers of __init__ hold (lines 296-304): the values
\* are whatever training left there
Weight(out_dim, in_dim, shift) ==
    [h \in 1..out_dim |-> [k \in 1..in_dim |-> ((h + k + shift) % 3) - 1]]

\* W_i built with nn.Linear's default bias
Bias_W_i_Default == [h \in 1..HiddenSize |-> 1]

\* lines 296-297: W_i has no bias
Bias_W_i == Zeros(HiddenSize)

\* line 298: W_h has no bias
Bias_W_h == Zeros(HiddenSize)

\* line 299: W_o keeps nn.Linear's bias
Bias_W_o == [h \in 1..HiddenSize |-> h]

\* line 302
Bias_W_b == [h \in 1..HiddenSize |-> 1]

Activations == {"ReLU", "LeakyReLU", "PReLU", "tanh"}

\* lines 308-317, applied to one number: LeakyReLU's slope is 0.1, PReLU's
\* is its initial 0.25, and tanh saturates
act_func(activation, x) ==
    IF activation = "ReLU" THEN (IF x > 0 THEN x ELSE 0)
    ELSE IF activation = "LeakyReLU" THEN (IF x >= 0 THEN x ELSE TruncDiv(x, 10))
    ELSE IF activation = "PReLU" THEN (IF x >= 0 THEN x ELSE TruncDiv(x, 4))
    ELSE Clamp(x, -3, 3)

ActRows(activation, rows) ==
    [r \in 1..Len(rows) |-> [h \in 1..Len(rows[r]) |-> act_func(activation, rows[r][h])]]

\* nn.Dropout with p = 0.5: the identity in evaluation mode; in training
\* mode a mask zeroes some elements and the others are scaled by 1 / (1 - p)
Dropout(mode, rows) ==
    IF mode = "eval" THEN rows
    ELSE [r \in 1..Len(rows) |->
             [h \in 1..Len(rows[r]) |-> IF (r + h) % 2 = 0 THEN 0 ELSE 2 * rows[r][h]]]

\* nn_utils.index_select_ND(source, 0, index): for every row of the index
\* table, the rows of source its entries name
index_select_ND(source, index) ==
    [b \in 1..Len(index) |-> [j \in 1..Len(index[b]) |-> source[index[b][j] + 1]]]

\* softmax over a sequence of scores, as numerators over one denominator
ExpInt(score) == 2 ^ (Clamp(score, -2, 2) + 2)

SoftmaxNum(scores) == [j \in 1..Len(scores) |-> ExpInt(scores[j])]

\* weigh the vectors vs by the softmax of their scores
Weigh(vs, scores) ==
    LET num == Computed(SoftmaxNum(scores))
        den == SumTo(num, Len(num))
    IN  [j \in 1..Len(vs) |->
            [h \in 1..Len(vs[j]) |-> TruncDiv(vs[j][h] * num[j], den)]]

\* lines 334-340: one round of message passing
MessageRound(args, binput, bgraph, message) ==
    LET gathered == index_select_ND(message, bgraph)
        W_ma1 == Weight(1, HiddenSize, 2)
        nei_message ==
            [b \in 1..Len(gathered) |->
                IF args.message_attention
                THEN Weigh(gathered[b],
                           [j \in 1..Len(gathered[b]) |->
                               Linear(W_ma1, <<0>>, gathered[b][j])[1]])
                ELSE gathered[b]]
        W_h == Weight(HiddenSize, HiddenSize, 1)
        projected ==
            [b \in 1..Len(gathered) |->
                Linear(W_h, Bias_W_h, SumVectors(nei_message[b], HiddenSize))]
        summed == [b \in 1..Len(gathered) |->
                      [h \in 1..HiddenSize |-> binput[b][h] + projected[b][h]]]
    IN  Computed(Dropout(args.dropout, ActRows(args.activation, summed)))

\* lines 331-340: message after line 331 and after each of the rounds
RECURSIVE Messages(_, _, _, _, _)
Messages(args, binput, bgraph, log, rounds) ==
    IF rounds = 0 THEN log
    ELSE Messages(args, binput, bgraph,
                  Append(log, MessageRound(args, binput, bgraph, log[Len(log)])),
                  rounds - 1)

\* lines 350-363: the vector of the molecule whose atoms are cur_hiddens
MolVec(args, cur_hiddens) ==
    LET le == Len(cur_hiddens)
        W_a == Weight(HiddenSize, HiddenSize, 0)
        W_b == Weight(HiddenSize, HiddenSize, 2)
        query == Computed([a \in 1..le |->
                              Linear(W_a, Zeros(HiddenSize), cur_hiddens[a])])
        att_hiddens ==
            [a \in 1..le |->
                SumVectors(Weigh(cur_hiddens,
                                 [c \in 1..le |-> Dot(query[a], cur_hiddens[c])]),
                           HiddenSize)]
        att_out == Dropout(args.dropout,
                           ActRows(args.activation,
                                   [a \in 1..le |-> Linear(W_b, Bias_W_b, att_hiddens[a])]))
        mol_vec == IF args.attention
                   THEN [a \in 1..le |->
                            [h \in 1..HiddenSize |-> cur_hiddens[a][h] + att_out[a][h]]]
                   ELSE cur_hiddens
        total == SumVectors(mol_vec, HiddenSize)
    IN  [h \in 1..HiddenSize |-> TruncDiv(total[h], le)]

\* lines 326-366: MPN.forward(mol_graph) of an MPN built with args
ForwardPass(args, mol_graph) ==
    LET fbond_dim == get_atom_fdim + get_bond_fdim(args.three_d, args.virtual_edges)
    IN  IF \E b \in 1..Len(mol_graph.fbonds) : Len(mol_graph.fbonds[b]) # fbond_dim
        THEN \* W_i (330) is given rows of another width
             [status |-> "error", args |-> args]
        ELSE
        LET W_i == Weight(HiddenSize, fbond_dim, 0)
            W_o == Weight(HiddenSize, get_atom_fdim + HiddenSize, 1)
            binput == Computed([b \in 1..Len(mol_graph.fbonds) |->
                                   Linear(W_i, Bias_W_i, mol_graph.fbonds[b])])
            log == Messages(args, binput, mol_graph.bgraph,
                            <<Computed(ActRows(args.activation, binput))>>,
                            args.depth - 1)
            message == log[Len(log)]
            gathered == index_select_ND(message, mol_graph.agraph)
            atom_hiddens ==
                Computed(Dropout(args.dropout,
                                 ActRows(args.activation,
                                         [a \in 1..Len(mol_graph.fatoms) |->
                                             Linear(W_o, Bias_W_o,
                                                    mol_graph.fatoms[a]
                                                    \o SumVectors(gathered[a],
                                                                  HiddenSize))])))
        IN  [status   |-> "ok",
             args     |-> args,
             \* the local message after line 331 and after each round
             messages |-> log,
             mol_vecs |-> [m \in 1..Len(mol_graph.scope) |->
                              MolVec(args, SubSeq(atom_hiddens,
                                                  mol_graph.scope[m][1] + 1,
                                                  mol_graph.scope[m][1]
                                                  + mol_graph.scope[m][2]))]]

\* what an MPN is built with (lines 289-317) and the mode it is run in
MPNArgs == [depth : 1..MaxDepth, activation : Activations,
            attention : BOOLEAN, message_attention : BOOLEAN,
            three_d : {FALSE}, virtual_edges : {FALSE},
            dropout : {"eval", "train"}]

\* build an MPN and run it forward on the graph mol2graph returned
Forward(args) ==
    /\ ret.status = "ok"
    /\ fwd = NoForward
    /\ fwd' = ForwardPass(args, ret)
    /\ UNCHANGED <<SMILES_TO_FEATURES, cached_flags, call, ret>>

(***************************************************************************)
(* Specifications.                                                         *)
(***************************************************************************)
\* the batcher without 3D features: every notation, batches up to MaxBatch
Next ==
    \E mol_batch \in BatchesOver(Notations, MaxBatch) :
        \E flags \in [addHs : BOOLEAN, three_d : {FALSE}, virtual_edges : BOOLEAN] :
            Mol2Graph(mol_batch, flags, [i \in 1..Len(mol_batch) |-> "confA"])

Spec == Init /\ [][Next]_vars

\* the batcher under every combination of flags and every outcome of the
\* embedding, on the notations that parse
NextFlags ==
    \E mol_batch \in BatchesOver(Parsable, MaxFlagBatch) :
        \E flags \in Flags :
            \E outcomes \in [1..Len(mol_batch) -> EmbedOutcomes] :
                Mol2Graph(mol_batch, flags, outcomes)

SpecFlags == Init /\ [][NextFlags]_vars

\* the batcher, hydrogens added, followed by the network
NextMPN ==
    \/ \E mol_batch \in BatchesOver(Parsable, MaxBatch) :
           Mol2Graph(mol_batch,
                     [addHs |-> TRUE, three_d |-> FALSE, virtual_edges |-> FALSE],
                     [i \in 1..Len(mol_batch) |-> "confA"])
    \/ \E args \in MPNArgs : Forward(args)

SpecMPN == Init /\ [][NextMPN]_vars

(***************************************************************************)
(* Properties of the graph mol2graph returns.                              *)
(***************************************************************************)
Returned == ret.status = "ok"

\* the global indices of the directed bonds of the returned batch
Bonds == 1..(Len(ret.all_bonds) - 1)

\* the global indices of its atoms
Atoms == 0..(Len(ret.fatoms) - 1)

Src(b) == ret.all_bonds[b + 1][1]

Dst(b) == ret.all_bonds[b + 1][2]

NonZero(row) == {row[i] : i \in 1..Len(row)} \ {0}

InDegree(a) == Cardinality({b \in Bonds : Dst(b) = a})

\* C1: row b of bgraph, for the directed bond b >= 1 going x -> y, holds as
\* its nonzero entries exactly the bonds that end at x, less the one reverse
\* bond y -> x, each once; every other entry is 0.
C1_BgraphSkipsReverse ==
    Returned =>
        \A b \in Bonds :
            LET row == ret.bgraph[b + 1]
                incoming == {b2 \in Bonds : Dst(b2) = Src(b)}
                reverse == {b2 \in Bonds : Src(b2) = Dst(b) /\ Dst(b2) = Src(b)}
            IN  /\ Cardinality(reverse) = 1
                /\ NonZero(row) = incoming \ reverse
                /\ \A i, j \in 1..Len(row) : (i # j /\ row[i] # 0) => row[i] # row[j]

\* a batch of two molecules in which a bond of the second one has a row
\* of bgraph with an entry and with the gap its reverse bond left
C1_Witness ==
    /\ Returned
    /\ Len(call.mol_batch) = 2
    /\ \E b \in Bonds :
           /\ Src(b) >= ret.scope[2][1]
           /\ NonZero(ret.bgraph[b + 1]) # {}
           /\ \E i \in 1..Len(ret.bgraph[b + 1]) : ret.bgraph[b + 1][i] = 0

\* C2: row i of agraph holds as its nonzero entries exactly the directed
\* bonds whose destination is atom i, in-degree(i) of them, and 0 elsewhere;
\* the rows of agraph and of bgraph are as wide as the largest in-degree of
\* the batch.
C2_AgraphInDegree ==
    Returned =>
        LET width == MaxOf({InDegree(a) : a \in Atoms})
        IN  /\ Len(ret.agraph) = Len(ret.fatoms)
            /\ Len(ret.bgraph) = Len(ret.fbonds)
            /\ Len(ret.bgraph) = Len(ret.all_bonds)
            /\ \A a \in Atoms :
                   LET row == ret.agraph[a + 1]
                   IN  /\ Len(row) = width
                       /\ NonZero(row) = {b \in Bonds : Dst(b) = a}
                       /\ Cardinality({i \in 1..Len(row) : row[i] # 0}) = InDegree(a)
            /\ \A b \in 0..(Len(ret.bgraph) - 1) : Len(ret.bgraph[b + 1]) = width

\* a batch where one atom has two incoming bonds and another atom's row
\* is padded
C2_Witness ==
    /\ Returned
    /\ \E a \in Atoms : InDegree(a) = 2
    /\ \E a \in Atoms :
           /\ NonZero(ret.agraph[a + 1]) # {}
           /\ \E i \in 1..Len(ret.agraph[a + 1]) : ret.agraph[a + 1][i] = 0

\* C3: scope has one (start, count) entry per notation, in input order; the
\* first start is 0, every later start is the previous start plus the
\* previous count, and the counts add up to the number of rows of fatoms.
C3_ScopePartition ==
    Returned =>
        /\ Len(ret.scope) = Len(call.mol_batch)
        /\ Len(ret.scope) >= 1
        /\ ret.scope[1][1] = 0
        /\ \A m \in 2..Len(ret.scope) :
               ret.scope[m][1] = ret.scope[m - 1][1] + ret.scope[m - 1][2]
        /\ \A m \in 1..Len(ret.scope) :
               ret.scope[m][2] =
                   SMILES_TO_FEATURES[Key(call.mol_batch[m], call.flags)].n_atoms
        /\ SumSeq([m \in 1..Len(ret.scope) |-> ret.scope[m][2]]) = Len(ret.fatoms)

\* a batch of two molecules with different numbers of atoms
C3_Witness ==
    /\ Returned
    /\ Len(ret.scope) = 2
    /\ ret.scope[2][1] > 0
    /\ ret.scope[1][2] # ret.scope[2][2]

\* C4: row 0 of fbonds is the all-zero padding row, no directed bond of a
\* molecule has the global index 0, row 0 of bgraph is all zeros, and the
\* entries of agraph and bgraph are 0 or the index of a directed bond.
C4_IndexZeroIsPadding ==
    Returned =>
        /\ Len(ret.fbonds) >= 1
        /\ ret.fbonds[1] = Zeros(get_atom_fdim
                                 + get_bond_fdim(call.flags.three_d,
                                                 call.flags.virtual_edges))
        /\ Len(ret.all_bonds) >= 1
        /\ ret.all_bonds[1] = <<-1, -1>>
        /\ Len(ret.all_bonds) - 1 =
               SumSeq([m \in 1..Len(call.mol_batch) |->
                          Len(SMILES_TO_FEATURES[Key(call.mol_batch[m],
                                                     call.flags)].mol_all_bonds)])
        /\ \A b \in Bonds :
               /\ Src(b) \in Atoms
               /\ Dst(b) \in Atoms
               /\ ret.fbonds[b + 1] # Zeros(Len(ret.fbonds[b + 1]))
        /\ Len(ret.bgraph) >= 1
        /\ ret.bgraph[1] = Zeros(Len(ret.bgraph[1]))
        /\ \A a \in 1..Len(ret.agraph) : NonZero(ret.agraph[a]) \subseteq Bonds
        /\ \A b \in 1..Len(ret.bgraph) : NonZero(ret.bgraph[b]) \subseteq Bonds

\* a batch whose tables hold both bonds and padding in one row
C4_Witness ==
    /\ Returned
    /\ Bonds # {}
    /\ \E a \in 1..Len(ret.agraph) :
           /\ NonZero(ret.agraph[a]) # {}
           /\ \E i \in 1..Len(ret.agraph[a]) : ret.agraph[a][i] = 0

\* the call mol2graph([smiles], flags) made in the current state
AloneCall(smiles, flags) ==
    Tensors(BatchLoop(InitialBatch(SMILES_TO_FEATURES, cached_flags,
                                   flags.three_d, flags.virtual_edges),
                      <<smiles>>, flags, <<"confA">>, 1))

\* an entry of agraph or bgraph moved by the bonds that precede the molecule
ShiftIndex(e, bond_offset) == IF e = 0 THEN 0 ELSE e + bond_offset

\* a row of the table of the molecule alone, as it reads in the batch
ShiftRow(row, bond_offset, width) ==
    [i \in 1..width |-> IF i <= Len(row) THEN ShiftIndex(row[i], bond_offset) ELSE 0]

C6_ParseFailureAborts ==
    (\E p \in 1..Len(call.mol_batch) : MolFromSmiles(call.mol_batch[p]) = << >>) =>
        /\ ret.status = "error"
        /\ DOMAIN ret = {"status", "raised"}
        /\ \A flags \in Flags :
               ~InCache(SMILES_TO_FEATURES, Key("C#", flags))

\* a call that failed on its second notation after it had featurized and
\* memoized the first
C6_Witness ==
    /\ Len(call.mol_batch) = 2
    /\ MolFromSmiles(call.mol_batch[2]) = << >>
    /\ call.hits = <<FALSE>>
    /\ ret.status = "error"

(***************************************************************************)
(* Properties of the memoization cache.                                    *)
(***************************************************************************)
\* the entry made for a notation, under the flags it was made with
EntryOf(cache, cflags, smiles) == cache[Key(smiles, cflags[smiles])]

\* the width mol2graph gives the padding row under these flags
RowWidth(flags) == get_atom_fdim + get_bond_fdim(flags.three_d, flags.virtual_edges)

\* the rows the graph g holds for the notation at position p are those of
\* the entry e
HoldsEntry(g, p, e) ==
    LET start == g.scope[p][1]
        bond_offset == Cardinality({b \in 1..(Len(g.all_bonds) - 1) :
                                       g.all_bonds[b + 1][1] < start})
    IN  /\ g.scope[p][2] = e.n_atoms
        /\ start + e.n_atoms <= Len(g.fatoms)
        /\ bond_offset + 1 + Len(e.mol_fbonds) <= Len(g.fbonds)
        /\ \A a \in 1..e.n_atoms : g.fatoms[start + a] = e.mol_fatoms[a]
        /\ \A k \in 1..Len(e.mol_fbonds) :
               /\ g.fbonds[bond_offset + 1 + k] = e.mol_fbonds[k]
               /\ g.all_bonds[bond_offset + 1 + k] =
                      <<e.mol_all_bonds[k][1] + start, e.mol_all_bonds[k][2] + start>>

\* C7: a call that repeats the call before it, same notation list and same
\* flags with three_d off, returns what that call returned.
C7_RepeatedCallSameGraph ==
    [][(/\ ret.status = "ok"
        /\ ~call.flags.three_d
        /\ call'.mol_batch = call.mol_batch
        /\ call'.flags = call.flags) => ret' = ret]_vars

\* the second of two such calls: the first featurized a notation, the
\* second took every notation from the cache
C7_Witness ==
    /\ Returned
    /\ call.repeat
    /\ call.prev_missed
    /\ ~call.flags.three_d
    /\ \A i \in 1..Len(call.hits) : call.hits[i]
    /\ \E b \in Bonds : TRUE

\* C8 as stated: a call whose batch holds a notation memoized under other
\* flags completes and returns for it the rows made under those flags (here
\* for the calls all of whose notations are memoized, which can fail for no
\* other reason).
C8_StaleReuseIsSilent ==
    [][\A p \in 1..Len(call'.mol_batch) :
           LET s == call'.mol_batch[p]
           IN  (/\ \A q \in 1..Len(call'.mol_batch) :
                       call'.mol_batch[q] \in DOMAIN cached_flags
                /\ cached_flags[s] # call'.flags)
               => /\ ret'.status = "ok"
                  /\ HoldsEntry(ret', p, EntryOf(SMILES_TO_FEATURES, cached_flags, s))]_vars

\* C8, amended: the entry of a notation memoized under other flags is not
\* made again; the call fails when a bond row of the entry has not the
\* width of the call's flags; a call that returns gives the notation the
\* rows of the entry; and a call all of whose notations are memoized
\* returns when every memoized bond row has the width of its flags.
C8_StaleReuse ==
    [][\A p \in 1..Len(call'.mol_batch) :
           LET s == call'.mol_batch[p]
           IN  (s \in DOMAIN cached_flags /\ cached_flags[s] # call'.flags) =>
               LET e == EntryOf(SMILES_TO_FEATURES, cached_flags, s)
                   fits(x) == \A k \in 1..Len(x.mol_fbonds) :
                                  Len(x.mol_fbonds[k]) = RowWidth(call'.flags)
               IN  /\ s \in DOMAIN cached_flags'
                   /\ cached_flags'[s] = cached_flags[s]
                   /\ EntryOf(SMILES_TO_FEATURES', cached_flags', s) = e
                   /\ ~fits(e) => ret'.status = "error"
                   /\ ret'.status = "ok" => HoldsEntry(ret', p, e)
                   /\ (\A q \in 1..Len(call'.mol_batch) :
                          /\ call'.mol_batch[q] \in DOMAIN cached_flags
                          /\ fits(EntryOf(SMILES_TO_FEATURES, cached_flags,
                                          call'.mol_batch[q])))
                      => ret'.status = "ok"]_vars

\* a call that returned the bonds of an entry made under other flags
C8_Witness ==
    /\ Returned
    /\ \E p \in 1..Len(call.stale) : call.stale[p]
    /\ Bonds # {}

\* C9: an entry of SMILES_TO_FEATURES is never removed or changed by a
\* later call, whether the call returns or raises.
C9_EntriesNeverChange ==
    [][\A k \in DOMAIN SMILES_TO_FEATURES :
           /\ k \in DOMAIN SMILES_TO_FEATURES'
           /\ SMILES_TO_FEATURES'[k] = SMILES_TO_FEATURES[k]]_vars

\* a call that read an entry made under other flags and then raised, with
\* the entry still in place
C9_Witness ==
    /\ ret.status = "error"
    /\ \E p \in 1..Len(call.stale) :
           /\ call.stale[p]
           /\ InCache(SMILES_TO_FEATURES, Key(call.mol_batch[p], call.flags))

(***************************************************************************)
(* Properties of the forward pass.                                         *)
(***************************************************************************)
\* C10: in a forward pass on a graph of mol2graph, row 0 of message is the
\* zero vector after line 331 and after every round, so that every slot of
\* bgraph or agraph that holds the padding index gathers the zero vector.
C10_MessageRowZeroStaysZero ==
    fwd.status = "ok" =>
        /\ Len(fwd.messages) = fwd.args.depth
        /\ \A r \in 1..Len(fwd.messages) :
               /\ fwd.messages[r][1] = Zeros(HiddenSize)
               /\ \A b \in 1..Len(ret.bgraph) : \A j \in 1..Len(ret.bgraph[b]) :
                      ret.bgraph[b][j] = 0 =>
                          index_select_ND(fwd.messages[r], ret.bgraph)[b][j]
                              = Zeros(HiddenSize)
               /\ \A a \in 1..Len(ret.agraph) : \A j \in 1..Len(ret.agraph[a]) :
                      ret.agraph[a][j] = 0 =>
                          index_select_ND(fwd.messages[r], ret.agraph)[a][j]
                              = Zeros(HiddenSize)

\* a pass of three rounds or more with message attention, on a graph whose
\* bgraph holds bonds and padding, with messages that are not all zero
C10_Witness ==
    /\ fwd.status = "ok"
    /\ fwd.args.depth >= 3
    /\ fwd.args.message_attention
    /\ fwd.args.dropout = "train"
    /\ \E b \in 1..Len(ret.bgraph) :
           /\ NonZero(ret.bgraph[b]) # {}
           /\ \E j \in 1..Len(ret.bgraph[b]) : ret.bgraph[b][j] = 0
    /\ \E b \in 2..Len(fwd.messages[3]) : fwd.messages[3][b] # Zeros(HiddenSize)

====
